---- MODULE Spec2Model ----
(***************************************************************************)
(* Model of pkg/cel/libs/http/http.go: the HTTP capability offered to CEL  *)
(* policies.  An executor (contextImpl) holds one dispatcher (client);     *)
(* Get and Post build a request, hand it to the dispatcher's Do and        *)
(* normalise the answer into one response value; Client derives an         *)
(* executor that trusts a CA bundle.                                       *)
(*                                                                         *)
(* Go values of type any are records tagged by k:                          *)
(*   [k |-> "nil"]                  the nil interface (also JSON null)      *)
(*   [k |-> "bool",    v |-> "true"]                                        *)
(*   [k |-> "float64", v |-> "1"]   every decoded JSON number               *)
(*   [k |-> "int",     v |-> 404]   resp.StatusCode                         *)
(*   [k |-> "string",  v |-> "a"]                                           *)
(*   [k |-> "slice",   v |-> <<...>>]   []any                               *)
(*   [k |-> "map",     v |-> [key |-> value]]   map[string]any              *)
(*   [k |-> "chan"]                 a value encoding/json cannot encode     *)
(* Byte streams (response bodies, request bodies, URLs, PEM bundles) are   *)
(* sequences of lexical tokens.                                            *)
(***************************************************************************)
EXTENDS Naturals, Sequences, FiniteSets

VARIABLES
    executors,  \* the contextImpl instances that exist, by address 1..Len
    pc,         \* per caller: "idle", "inDo", "gotResp", "decoded", "done", "panicked"
    call,       \* per caller: the operation in progress or just completed
    resp,       \* per caller: executeRequest's local resp, err (line 95)
    bodyVal,    \* per caller: executeRequest's local body (line 102)
    wire,       \* per caller: what the dispatcher answered to this call's request
    out,        \* per caller: what the completed operation returned
    events      \* per caller: Do / Read / Close events of the call, in order

vars == <<executors, pc, call, resp, bodyVal, wire, out, events>>

(***************************************************************************)
(* Bounds of the model.                                                    *)
(***************************************************************************)
\* executors that can exist at once (Client stops deriving new ones there)
MaxExecutors == 2
\* callers using the executors concurrently in SpecConc
NumCallers == 2

(***************************************************************************)
(* Go values.                                                              *)
(***************************************************************************)
GoNil == [k |-> "nil"]
GoBool(b) == [k |-> "bool", v |-> b]
GoFloat(n) == [k |-> "float64", v |-> n]
GoInt(n) == [k |-> "int", v |-> n]
GoString(s) == [k |-> "string", v |-> s]
GoSlice(s) == [k |-> "slice", v |-> s]
GoMap(m) == [k |-> "map", v |-> m]
GoNaN == GoFloat("NaN")
GoChan == [k |-> "chan"]

\* the empty map[string]any
EmptyMap == [x \in {} |-> GoNil]

\* m[key] = val on a Go map
MapSet(m, key, val) ==
    [x \in (DOMAIN m) \cup {key} |-> IF x = key THEN val ELSE m[x]]

\* error values: the chain of messages, outermost first; nil is the empty chain
NoErr == <<>>
\* fmt.Errorf("<msg>: %w", err)
Wrap(msg, err) == <<msg>> \o err

(***************************************************************************)
(* encoding/json, decoding: json.NewDecoder(r).Decode(&body) reads the     *)
(* first JSON value of the stream.  Tokens: the six structural characters, *)
(* " " (white space), string literals, number literals, the three          *)
(* literals, and anything else (not JSON).                                 *)
(***************************************************************************)
StrToks == {"\"a\"", "\"b\"", "\"error\"", "\"not found\"", "\"statusCode\"",
            "\"body\""}
NumToks == {"1", "2", "200"}
LitToks == {"null", "true", "false"}
WS == " "

StrVal(t) ==
    CASE t = "\"a\"" -> "a"
      [] t = "\"b\"" -> "b"
      [] t = "\"error\"" -> "error"
      [] t = "\"not found\"" -> "not found"
      [] t = "\"statusCode\"" -> "statusCode"
      [] t = "\"body\"" -> "body"

LitVal(t) == IF t = "null" THEN GoNil ELSE GoBool(t)

\* a parse result: the value and the index of the first token after it
Parsed(val, next) == [ok |-> TRUE, val |-> val, next |-> next]
SyntaxError == [ok |-> FALSE, val |-> GoNil, next |-> 0]

RECURSIVE SkipWS(_, _)
SkipWS(toks, i) ==
    IF i <= Len(toks) /\ toks[i] = WS THEN SkipWS(toks, i + 1) ELSE i

RECURSIVE ParseValue(_, _)
RECURSIVE ParseElems(_, _, _)
RECURSIVE ParseMembers(_, _, _)

\* the value that starts at or after token i
ParseValue(toks, i0) ==
    LET i == SkipWS(toks, i0) IN
    IF i > Len(toks) THEN SyntaxError
    ELSE LET t == toks[i] IN
         IF t \in StrToks THEN Parsed(GoString(StrVal(t)), i + 1)
         ELSE IF t \in NumToks THEN Parsed(GoFloat(t), i + 1)
         ELSE IF t \in LitToks THEN Parsed(LitVal(t), i + 1)
         ELSE IF t = "[" THEN
              LET j == SkipWS(toks, i + 1) IN
              IF j <= Len(toks) /\ toks[j] = "]"
              THEN Parsed(GoSlice(<<>>), j + 1)
              ELSE ParseElems(toks, i + 1, <<>>)
         ELSE IF t = "{" THEN
              LET j == SkipWS(toks, i + 1) IN
              IF j <= Len(toks) /\ toks[j] = "}"
              THEN Parsed(GoMap(EmptyMap), j + 1)
              ELSE ParseMembers(toks, i + 1, EmptyMap)
         ELSE SyntaxError

\* the elements of an array, after "[" or ","
ParseElems(toks, i, acc) ==
    LET e == ParseValue(toks, i) IN
    IF ~e.ok THEN SyntaxError
    ELSE LET j == SkipWS(toks, e.next) IN
         IF j > Len(toks) THEN SyntaxError
         ELSE IF toks[j] = "," THEN ParseElems(toks, j + 1, Append(acc, e.val))
         ELSE IF toks[j] = "]" THEN Parsed(GoSlice(Append(acc, e.val)), j + 1)
         ELSE SyntaxError

\* the members of an object, after "{" or ","; a repeated key keeps the last value
ParseMembers(toks, i0, acc) ==
    LET i == SkipWS(toks, i0) IN
    IF i > Len(toks) \/ (i <= Len(toks) /\ toks[i] \notin StrToks) THEN SyntaxError
    ELSE LET c == SkipWS(toks, i + 1) IN
         IF c > Len(toks) \/ (c <= Len(toks) /\ toks[c] # ":") THEN SyntaxError
         ELSE LET e == ParseValue(toks, c + 1) IN
              IF ~e.ok THEN SyntaxError
              ELSE LET j == SkipWS(toks, e.next)
                       m == MapSet(acc, StrVal(toks[i]), e.val)
                   IN IF j > Len(toks) THEN SyntaxError
                      ELSE IF toks[j] = "," THEN ParseMembers(toks, j + 1, m)
                      ELSE IF toks[j] = "}" THEN Parsed(GoMap(m), j + 1)
                      ELSE SyntaxError

\* (*Decoder).Decode into an any: [err, val].  An empty stream is io.EOF, an
\* incomplete or malformed first value a syntax error; what follows the first
\* complete value is left in the stream, unread by this call.
Decode(toks) ==
    LET r == ParseValue(toks, 1) IN
    IF ~r.ok THEN [err |-> <<"json: cannot decode">>, val |-> GoNil]
    ELSE [err |-> NoErr, val |-> r.val]

(***************************************************************************)
(* encoding/json, encoding: json.NewEncoder(buffer).Encode(data) writes    *)
(* the JSON text of data and a newline.  NaN (like the infinities) is an   *)
(* UnsupportedValueError, a channel an UnsupportedTypeError.  A map is     *)
(* written with its keys sorted.                                           *)
(***************************************************************************)
Quote(s) ==
    CASE s = "a" -> "\"a\""
      [] s = "b" -> "\"b\""
      [] s = "error" -> "\"error\""
      [] s = "not found" -> "\"not found\""
      [] s = "statusCode" -> "\"statusCode\""
      [] s = "body" -> "\"body\""

Marshalled(toks) == [err |-> NoErr, toks |-> toks]
MarshalError(msg) == [err |-> <<msg>>, toks |-> <<>>]

\* the strings of the model, in the order encoding/json sorts map keys
KeyOrder == <<"a", "b", "body", "error", "not found", "statusCode">>

\* strconv: the decimal text of a natural number
DecimalDigits == <<"0", "1", "2", "3", "4", "5", "6", "7", "8", "9">>
RECURSIVE Itoa(_)
Itoa(n) ==
    IF n < 10 THEN DecimalDigits[n + 1]
    ELSE Itoa(n \div 10) \o DecimalDigits[(n % 10) + 1]

RECURSIVE Marshal(_)
RECURSIVE MarshalElems(_, _, _)
RECURSIVE MarshalMembers(_, _, _)

Marshal(val) ==
    CASE val.k = "nil" -> Marshalled(<<"null">>)
      [] val.k = "bool" -> Marshalled(<<val.v>>)
      [] val.k = "string" -> Marshalled(<<Quote(val.v)>>)
      [] val.k = "float64" ->
            IF val.v = "NaN" THEN MarshalError("json: unsupported value: NaN")
            ELSE Marshalled(<<val.v>>)
      [] val.k = "int" -> Marshalled(<<Itoa(val.v)>>)
      [] val.k = "slice" -> MarshalElems(val.v, 1, <<"[">>)
      [] val.k = "map" -> MarshalMembers(val.v, 1, <<"{">>)
      [] val.k = "chan" -> MarshalError("json: unsupported type: chan")

MarshalElems(vals, i, acc) ==
    IF i > Len(vals) THEN Marshalled(Append(acc, "]"))
    ELSE LET e == Marshal(vals[i]) IN
         IF e.err # NoErr THEN e
         ELSE MarshalElems(vals, i + 1,
                           (IF i > 1 THEN Append(acc, ",") ELSE acc) \o e.toks)

\* the members of a map, from the i-th key of KeyOrder on
MarshalMembers(m, i, acc) ==
    IF i > Len(KeyOrder) THEN Marshalled(Append(acc, "}"))
    ELSE IF KeyOrder[i] \notin DOMAIN m THEN MarshalMembers(m, i + 1, acc)
    ELSE LET e == Marshal(m[KeyOrder[i]]) IN
         IF e.err # NoErr THEN e
         ELSE MarshalMembers(m, i + 1,
                  (IF Len(acc) > 1 THEN Append(acc, ",") ELSE acc)
                      \o <<Quote(KeyOrder[i]), ":">> \o e.toks)

\* a request or response body: an absent (nil) one, or a stream of tokens
NoBody == [present |-> FALSE, toks |-> <<>>]
Stream(toks) == [present |-> TRUE, toks |-> toks]

\* buildRequestData: the reader over the encoded data, or the wrapped error
buildRequestData(data) ==
    LET e == Marshal(data) IN
    IF e.err # NoErr
    THEN [err |-> Wrap("failed to encode HTTP POST data", e.err), body |-> NoBody]
    ELSE [err |-> NoErr, body |-> Stream(Append(e.toks, WS))]

(***************************************************************************)
(* net/http, building a request: http.NewRequestWithContext fails when     *)
(* url.Parse fails.  A URL is a sequence of tokens: "h" a run of letters,  *)
(* "1" a run of digits, ":" and "/" themselves, "\n" a control character.  *)
(***************************************************************************)
Letters == "h"
Digits == "1"
CTL == "\n"

\* getScheme: [err, scheme (number of tokens of the scheme, 0 when none)]
RECURSIVE getScheme(_, _)
getScheme(url, i) ==
    IF i > Len(url) THEN [err |-> NoErr, scheme |-> 0]
    ELSE IF url[i] = Letters THEN getScheme(url, i + 1)
    ELSE IF url[i] = Digits THEN
         IF i = 1 THEN [err |-> NoErr, scheme |-> 0] ELSE getScheme(url, i + 1)
    ELSE IF url[i] = ":" THEN
         IF i = 1 THEN [err |-> <<"missing protocol scheme">>, scheme |-> 0]
         ELSE [err |-> NoErr, scheme |-> i - 1]
    ELSE [err |-> NoErr, scheme |-> 0]

\* whether the first path segment (up to the first "/") holds a colon
RECURSIVE ColonInFirstSegment(_, _)
ColonInFirstSegment(url, i) ==
    IF i > Len(url) \/ (i <= Len(url) /\ url[i] = "/") THEN FALSE
    ELSE IF url[i] = ":" THEN TRUE
    ELSE ColonInFirstSegment(url, i + 1)

\* whether token i of the URL is a "/"
SlashAt(url, i) == i <= Len(url) /\ url[i] = "/"

\* the index after the authority that starts at token i: the next "/" or the end
RECURSIVE AuthorityEnd(_, _)
AuthorityEnd(url, i) ==
    IF i > Len(url) \/ SlashAt(url, i) THEN i ELSE AuthorityEnd(url, i + 1)

\* parseAuthority, parseHost, validOptionalPort on the authority that starts at
\* token i: what follows the last colon of the host must be digits or nothing
parseAuthority(url, i) ==
    LET end == AuthorityEnd(url, i)
        colons == {j \in i..(end - 1) : url[j] = ":"}
    IN IF colons = {} THEN NoErr
       ELSE LET last == CHOOSE j \in colons : \A k \in colons : k <= j IN
            IF \A j \in (last + 1)..(end - 1) : url[j] = Digits THEN NoErr
            ELSE <<"invalid port after host">>

\* url.Parse: the error, NoErr when the URL parses
ParseURL(url) ==
    IF \E i \in 1..Len(url) : url[i] = CTL
    THEN <<"net/url: invalid control character in URL">>
    ELSE LET s == getScheme(url, 1) IN
         IF s.err # NoErr THEN s.err
         ELSE LET rest == IF s.scheme = 0 THEN 1 ELSE s.scheme + 2 IN
              IF ~SlashAt(url, rest) /\ s.scheme # 0 THEN NoErr   \* opaque
              ELSE IF ~SlashAt(url, rest) /\ ColonInFirstSegment(url, rest)
                   THEN <<"first path segment in URL cannot contain colon">>
              ELSE IF /\ SlashAt(url, rest) /\ SlashAt(url, rest + 1)
                      /\ (s.scheme # 0 \/ ~SlashAt(url, rest + 2))
                   THEN parseAuthority(url, rest + 2)
              ELSE NoErr

EmptyHeader == [x \in {} |-> {}]
NoReq == [method |-> "", url |-> <<>>, body |-> NoBody, header |-> EmptyHeader]

NewRequest(method, url, body) ==
    LET e == ParseURL(url) IN
    IF e # NoErr THEN [err |-> e, req |-> NoReq]
    ELSE [err |-> NoErr,
          req |-> [method |-> method, url |-> url, body |-> body,
                   header |-> EmptyHeader]]

\* textproto.CanonicalMIMEHeaderKey on the header names of the model
Canon(name) ==
    CASE name = "x-token" -> "X-Token"
      [] name = "X-Token" -> "X-Token"
      [] name = "accept" -> "Accept"

\* for h, v := range headers { req.Header.Add(h, v) }
AddHeaders(req, headers) ==
    [req EXCEPT !.header =
        [ck \in {Canon(h) : h \in DOMAIN headers} |->
            {headers[h] : h \in {x \in DOMAIN headers : Canon(x) = ck}}]]

(***************************************************************************)
(* The dispatcher's answers.  Do returns an error, or a response with a    *)
(* status code and a body; the body of a response a ClientInterface        *)
(* returns may be absent (nil).                                            *)
(***************************************************************************)
NoResp == [err |-> NoErr, status |-> 0, body |-> NoBody]
DoError(e) == [err |-> e, status |-> 0, body |-> NoBody]
Response(status, body) == [err |-> NoErr, status |-> status, body |-> body]

(***************************************************************************)
(* executeRequest, after client.Do has returned (lines 96-124).            *)
(***************************************************************************)
\* what a call gives back: a value and an error, or a panic
Return(val, err, ev) == [panic |-> FALSE, val |-> val, err |-> err, events |-> ev]
Panic(ev) == [panic |-> TRUE, val |-> GoNil, err |-> NoErr, events |-> ev]

\* lines 102-109: the decoded body, nil when it cannot be decoded
DecodeBody(body) ==
    LET d == Decode(body.toks) IN
    IF d.err # NoErr THEN GoNil ELSE d.val

\* a Close that only the object branch runs
DeferredCloseObjectOnly(b) == IF b.k = "map" THEN <<"Close">> ELSE <<>>

\* line 99: the deferred resp.Body.Close() runs when executeRequest returns,
\* whatever b, the decoded body, is
DeferredClose(b) == <<"Close">>

\* Normalize that keeps a statusCode key the body already has
NormalizeKeepExisting(body, statusCode) ==
    IF body.k = "map"
    THEN IF "statusCode" \in DOMAIN body.v THEN body
         ELSE GoMap(MapSet(body.v, "statusCode", GoInt(statusCode)))
    ELSE GoMap(MapSet(MapSet(EmptyMap, "body", body), "statusCode", GoInt(statusCode)))

\* Normalize that leaves the body key out when there is no decoded body
NormalizeOmitNilBody(body, statusCode) ==
    IF body.k = "map"
    THEN GoMap(MapSet(body.v, "statusCode", GoInt(statusCode)))
    ELSE IF body = GoNil THEN GoMap(MapSet(EmptyMap, "statusCode", GoInt(statusCode)))
    ELSE GoMap(MapSet(MapSet(EmptyMap, "body", body), "statusCode", GoInt(statusCode)))

\* lines 111-123: statusCode goes into a decoded object, anything else is wrapped
Normalize(body, statusCode) ==
    IF body.k = "map"
    THEN GoMap(MapSet(body.v, "statusCode", GoInt(statusCode)))
    ELSE GoMap(MapSet(MapSet(EmptyMap, "body", body), "statusCode", GoInt(statusCode)))

\* what lines 96-109 leave: a return, a panic, or the decoded body
Decoded(b, ev) ==
    [next |-> "decoded", val |-> GoNil, err |-> NoErr, body |-> b, events |-> ev]
Returns(val, err) ==
    [next |-> "return", val |-> val, err |-> err, body |-> GoNil, events |-> <<>>]
Panics == [next |-> "panic", val |-> GoNil, err |-> NoErr, body |-> GoNil,
           events |-> <<>>]

\* readBody that hands back a response value together with the error
readBodyPartial(r) ==
    IF r.err # NoErr
    THEN Returns(Normalize(GoNil, r.status), Wrap("request failed", r.err))
    ELSE IF ~r.body.present THEN Panics
    ELSE Decoded(DecodeBody(r.body), <<"Read">>)

\* lines 96-109, given what Do returned: the error return, the defer, the
\* decoding of the body.  Line 99 evaluates resp.Body.Close to defer it: on a
\* nil Body that is a nil dereference, a run-time panic.
readBody(r) ==
    IF r.err # NoErr THEN Returns(GoNil, Wrap("request failed", r.err))
    ELSE IF ~r.body.present THEN Panics
    ELSE Decoded(DecodeBody(r.body), <<"Read">>)

\* result that turns 4xx and 5xx into errors
resultErrorStatus(b, statusCode) ==
    IF statusCode >= 400
    THEN Return(GoNil, <<"request failed: bad status">>, DeferredClose(b))
    ELSE Return(Normalize(b, statusCode), NoErr, DeferredClose(b))

\* lines 111-124: the value returned for the decoded body b, and the deferred
\* Close on the way out
result(b, statusCode) == Return(Normalize(b, statusCode), NoErr, DeferredClose(b))

\* lines 96-124 run from start to end, given what Do returned
executeRequest(r) ==
    LET a == readBody(r) IN
    IF a.next = "return" THEN Return(a.val, a.err, a.events)
    ELSE IF a.next = "panic" THEN Panic(a.events)
    ELSE LET e == result(a.body, r.status) IN
         Return(e.val, e.err, a.events \o e.events)

(***************************************************************************)
(* Get and Post up to the call of executeRequest (lines 51-59, 79-91):     *)
(* either the call returns at once with an error, or req is dispatched.    *)
(***************************************************************************)
Failed(err) == [dispatch |-> FALSE, req |-> NoReq, err |-> err]
Dispatch(req) == [dispatch |-> TRUE, req |-> req, err |-> NoErr]

Get(url, headers) ==
    LET n == NewRequest("GET", url, NoBody) IN
    IF n.err # NoErr THEN Failed(Wrap("failed to create request", n.err))
    ELSE Dispatch(AddHeaders(n.req, headers))

\* Post that builds the request before it encodes the data
PostRequestFirst(url, data, headers) ==
    LET n == NewRequest("POST", url, NoBody) IN
    IF n.err # NoErr THEN Failed(Wrap("failed to create request", n.err))
    ELSE LET b == buildRequestData(data) IN
         IF b.err # NoErr THEN Failed(Wrap("failed to encode request data", b.err))
         ELSE Dispatch(AddHeaders([n.req EXCEPT !.body = b.body], headers))

Post(url, data, headers) ==
    LET b == buildRequestData(data) IN
    IF b.err # NoErr THEN Failed(Wrap("failed to encode request data", b.err))
    ELSE LET n == NewRequest("POST", url, b.body) IN
         IF n.err # NoErr THEN Failed(Wrap("failed to create request", n.err))
         ELSE Dispatch(AddHeaders(n.req, headers))

(***************************************************************************)
(* Client (lines 126-145).  A CA bundle is a sequence of tokens: a         *)
(* CERTIFICATE block that parses ("CERT-A", "CERT-B"), one that does not   *)
(* ("BADCERT"), a block of another type ("KEY"), text that is no PEM block *)
(* ("text").  The empty sequence is the empty string.                      *)
(***************************************************************************)
CertToks == {"CERT-A", "CERT-B"}

\* (*CertPool).AppendCertsFromPEM: the certificates added; ok iff there is one
RECURSIVE AppendCertsFromPEM(_, _, _)
AppendCertsFromPEM(pem, i, pool) ==
    IF i > Len(pem) THEN pool
    ELSE IF pem[i] \in CertToks THEN AppendCertsFromPEM(pem, i + 1, pool \cup {pem[i]})
    ELSE AppendCertsFromPEM(pem, i + 1, pool)

\* dispatchers (the values of a contextImpl's client field)
NilClient == [kind |-> "nil", id |-> 0, rootCAs |-> {}, minVersion |-> ""]
DefaultClient == [kind |-> "http.DefaultClient", id |-> 0, rootCAs |-> {}, minVersion |-> ""]
InjectedClient == [kind |-> "injected", id |-> 0, rootCAs |-> {}, minVersion |-> ""]
\* lines 134-143: a new http.Client over a new transport; id is its identity
NewClient(id, pool) ==
    [kind |-> "http.Client", id |-> id, rootCAs |-> pool, minVersion |-> "TLS1.2"]

\* NewHTTP (lines 25-32)
NewHTTP(c) == [client |-> IF c = NilClient THEN DefaultClient ELSE c]

\* Client that hands out a copy of the receiver for an empty bundle
ClientCopy(exs, r, caBundle) ==
    IF caBundle = <<>>
    THEN [ret |-> Len(exs) + 1, err |-> NoErr, executors |-> Append(exs, exs[r])]
    ELSE LET pool == AppendCertsFromPEM(caBundle, 1, {}) IN
         IF pool = {}
         THEN [ret |-> 0, err |-> <<"failed to parse PEM CA bundle for APICall">>,
               executors |-> exs]
         ELSE [ret |-> Len(exs) + 1, err |-> NoErr,
               executors |-> Append(exs, [client |-> NewClient(Len(exs) + 1, pool)])]

\* Client that installs the new dispatcher in the receiver and returns it
ClientInPlace(exs, r, caBundle) ==
    IF caBundle = <<>> THEN [ret |-> r, err |-> NoErr, executors |-> exs]
    ELSE LET pool == AppendCertsFromPEM(caBundle, 1, {}) IN
         IF pool = {}
         THEN [ret |-> 0, err |-> <<"failed to parse PEM CA bundle for APICall">>,
               executors |-> exs]
         ELSE [ret |-> r, err |-> NoErr,
               executors |-> [exs EXCEPT ![r] =
                                 [client |-> NewClient(Len(exs) + 1, pool)]]]

\* Client on the executor at address r: [ret, err, executors], ret the address
\* of the executor returned (0 for nil), executors the instances afterwards
Client(exs, r, caBundle) ==
    IF caBundle = <<>> THEN [ret |-> r, err |-> NoErr, executors |-> exs]
    ELSE LET pool == AppendCertsFromPEM(caBundle, 1, {}) IN
         IF pool = {}
         THEN [ret |-> 0, err |-> <<"failed to parse PEM CA bundle for APICall">>,
               executors |-> exs]
         ELSE [ret |-> Len(exs) + 1, err |-> NoErr,
               executors |-> Append(exs, [client |-> NewClient(Len(exs) + 1, pool)])]

(***************************************************************************)
(* The inputs of the model.                                                *)
(***************************************************************************)
\* "http://h", "", "/h", "http://h:1/h" parse; "://h", "http://h\n", "1h:/",
\* "http://h:h", "//h:h" do not
GoodURL == <<"h", ":", "/", "/", "h">>
URLs == {GoodURL, <<>>, <<"/", "h">>,
         <<"h", ":", "/", "/", "h", ":", "1", "/", "h">>,
         <<":", "/", "/", "h">>, <<"h", ":", "/", "/", "h", "\n">>,
         <<"1", "h", ":", "/">>,
         <<"h", ":", "/", "/", "h", ":", "h">>, <<"/", "/", "h", ":", "h">>}

GoodData == GoSlice(<<GoFloat("1"), GoString("a")>>)
\* {"a": [1, "a"], "b": 200}
ObjectData == GoMap(MapSet(MapSet(EmptyMap, "b", GoInt(200)), "a", GoodData))
Datas == {GoodData, ObjectData, GoNil, GoNaN, GoSlice(<<GoFloat("1"), GoNaN>>),
          GoMap(MapSet(EmptyMap, "a", GoChan)), GoChan}

NoHeaders == [x \in {} |-> ""]
HeaderSets == {NoHeaders, [x \in {"x-token"} |-> "t"]}

StatusCodes == {200, 404, 500}
DoErrors == {<<"connection refused">>, <<"context deadline exceeded">>}

ObjectBody == <<"{", "\"a\"", ":", "1", "}">>
ArrayBody == <<"[", "1", ",", "2", "]">>
Bodies ==
    { <<>>,                                                   \* empty
      <<"{", "}">>,
      ObjectBody,
      <<"{", "\"error\"", ":", "\"not found\"", "}">>,
      <<"{", "\"statusCode\"", ":", "1", ",", "\"a\"", ":", "null", "}">>,
      <<"{", "\"a\"", ":", "1", ",", "\"a\"", ":", "2", "}">>,  \* repeated key
      <<" ", "{", "\"body\"", ":", "[", "{", "}", "]", "}", "<html>">>,
      <<"{", "\"a\"", ":">>,                                  \* truncated
      <<"{", "\"a\"", ":", "1", ",", "}">>,                   \* trailing comma
      ArrayBody,
      <<"[", "]">>,
      <<"[", "1", "}">>,
      <<"1">>, <<"\"a\"">>, <<"null">>, <<"true">>,
      <<"200", " ", "<html>">>,
      <<"1", "<html>">>,                                      \* 1<html>
      <<"true", "}">>,
      <<"<html>">> }

\* the bodies that come with every status code
ErrorBodies ==
    { <<>>,
      <<"{", "\"error\"", ":", "\"not found\"", "}">>,
      <<"{", "\"statusCode\"", ":", "1", ",", "\"a\"", ":", "null", "}">>,
      ArrayBody,
      <<"{", "\"a\"", ":">>,
      <<"<html>">> }

Outcomes ==
    {DoError(e) : e \in DoErrors}
    \cup {Response(200, Stream(b)) : b \in Bodies}
    \cup {Response(s, Stream(b)) : s \in StatusCodes, b \in ErrorBodies}
    \cup {Response(s, NoBody) : s \in StatusCodes}

Bundles == {<<>>, <<"text">>, <<"BADCERT">>, <<"CERT-A">>, <<"KEY", "text", "CERT-B">>}

\* the smaller inputs of the concurrent specification
ConcURLs == {GoodURL, <<":", "/", "/", "h">>}
ConcDatas == {ObjectData, GoNaN}
ConcHeaderSets == {NoHeaders}
ConcOutcomes == {DoError(<<"connection refused">>),
                 Response(200, Stream(ObjectBody)),
                 Response(404, Stream(ArrayBody)),
                 Response(500, Stream(<<"<html>">>)),
                 Response(200, NoBody)}

(***************************************************************************)
(* The state machine.  A Get or Post call that reaches the dispatcher      *)
(* takes three steps: up to client.Do (GetCall, PostCall), the dispatcher  *)
(* answering (DoReturn), the reading of the body (ReadBody), and the       *)
(* return with the deferred Close (Finish).  Other callers may run between *)
(* them.  A caller whose call has returned holds   *)
(* the result ("done") until it goes on (Resume).                          *)
(***************************************************************************)
NoCall == [op |-> "", recv |-> 0, url |-> <<>>, data |-> GoNil,
           headers |-> NoHeaders, bundle |-> <<>>, req |-> NoReq,
           disp |-> NilClient]
NoOut == [val |-> GoNil, err |-> NoErr, ret |-> 0]

Ready(p) == pc[p] = "idle"

\* a Get or Post call c by p, g what Get or Post did before executeRequest
Begin(p, c, g) ==
    /\ call' = [call EXCEPT ![p] =
                   [c EXCEPT !.req = g.req,
                             !.disp = IF g.dispatch THEN executors[c.recv].client
                                      ELSE NilClient]]
    /\ resp' = [resp EXCEPT ![p] = NoResp]
    /\ wire' = [wire EXCEPT ![p] = NoResp]
    /\ bodyVal' = [bodyVal EXCEPT ![p] = GoNil]
    /\ IF g.dispatch
       THEN /\ pc' = [pc EXCEPT ![p] = "inDo"]
            /\ out' = [out EXCEPT ![p] = NoOut]
            /\ events' = [events EXCEPT ![p] = <<"Do">>]
       ELSE /\ pc' = [pc EXCEPT ![p] = "done"]
            /\ out' = [out EXCEPT ![p] = [val |-> GoNil, err |-> g.err, ret |-> 0]]
            /\ events' = [events EXCEPT ![p] = <<>>]
    /\ UNCHANGED executors

GetCall(p, r, url, headers) ==
    /\ Ready(p)
    /\ Begin(p, [NoCall EXCEPT !.op = "Get", !.recv = r, !.url = url,
                               !.headers = headers],
             Get(url, headers))

PostCall(p, r, url, data, headers) ==
    /\ Ready(p)
    /\ Begin(p, [NoCall EXCEPT !.op = "Post", !.recv = r, !.url = url,
                               !.data = data, !.headers = headers],
             Post(url, data, headers))

\* DoReturn that keeps the response in the executor, where every call on that
\* executor that is past Do reads it
DoReturnShared(p, o) ==
    /\ pc[p] = "inDo"
    /\ resp' = [q \in DOMAIN resp |->
                   IF q = p \/ (/\ pc[q] \in {"gotResp", "decoded"}
                                /\ call[q].recv = call[p].recv)
                   THEN o ELSE resp[q]]
    /\ wire' = [wire EXCEPT ![p] = o]
    /\ pc' = [pc EXCEPT ![p] = "gotResp"]
    /\ UNCHANGED <<executors, call, bodyVal, out, events>>

\* line 95: the dispatcher answers p's request with o
DoReturn(p, o) ==
    /\ pc[p] = "inDo"
    /\ resp' = [resp EXCEPT ![p] = o]
    /\ wire' = [wire EXCEPT ![p] = o]
    /\ pc' = [pc EXCEPT ![p] = "gotResp"]
    /\ UNCHANGED <<executors, call, bodyVal, out, events>>

\* lines 96-109
ReadBody(p) ==
    /\ pc[p] = "gotResp"
    /\ LET a == readBody(resp[p]) IN
       /\ pc' = [pc EXCEPT ![p] = CASE a.next = "return" -> "done"
                                   [] a.next = "panic" -> "panicked"
                                   [] a.next = "decoded" -> "decoded"]
       /\ bodyVal' = [bodyVal EXCEPT ![p] = a.body]
       /\ out' = [out EXCEPT ![p] = [val |-> a.val, err |-> a.err, ret |-> 0]]
       /\ events' = [events EXCEPT ![p] = events[p] \o a.events]
    /\ UNCHANGED <<executors, call, resp, wire>>

\* lines 111-124
Finish(p) ==
    /\ pc[p] = "decoded"
    /\ LET e == result(bodyVal[p], resp[p].status) IN
       /\ out' = [out EXCEPT ![p] = [val |-> e.val, err |-> e.err, ret |-> 0]]
       /\ events' = [events EXCEPT ![p] = events[p] \o e.events]
    /\ pc' = [pc EXCEPT ![p] = "done"]
    /\ bodyVal' = [bodyVal EXCEPT ![p] = GoNil]
    /\ UNCHANGED <<executors, call, resp, wire>>

\* lines 126-145
ClientCall(p, r, caBundle) ==
    /\ Ready(p)
    /\ LET c == Client(executors, r, caBundle) IN
       /\ Len(c.executors) <= MaxExecutors
       /\ executors' = c.executors
       /\ out' = [out EXCEPT ![p] = [val |-> GoNil, err |-> c.err, ret |-> c.ret]]
    /\ call' = [call EXCEPT ![p] =
                   [NoCall EXCEPT !.op = "Client", !.recv = r, !.bundle = caBundle]]
    /\ pc' = [pc EXCEPT ![p] = "done"]
    /\ resp' = [resp EXCEPT ![p] = NoResp]
    /\ wire' = [wire EXCEPT ![p] = NoResp]
    /\ events' = [events EXCEPT ![p] = <<>>]
    /\ UNCHANGED bodyVal

\* the caller has taken what its call returned and is free to call again
Resume(p) ==
    /\ pc[p] = "done"
    /\ pc' = [pc EXCEPT ![p] = "idle"]
    /\ call' = [call EXCEPT ![p] = NoCall]
    /\ resp' = [resp EXCEPT ![p] = NoResp]
    /\ wire' = [wire EXCEPT ![p] = NoResp]
    /\ out' = [out EXCEPT ![p] = NoOut]
    /\ events' = [events EXCEPT ![p] = <<>>]
    /\ UNCHANGED <<executors, bodyVal>>

InitCallers(P) ==
    /\ pc = [p \in P |-> "idle"]
    /\ call = [p \in P |-> NoCall]
    /\ resp = [p \in P |-> NoResp]
    /\ bodyVal = [p \in P |-> GoNil]
    /\ wire = [p \in P |-> NoResp]
    /\ out = [p \in P |-> NoOut]
    /\ events = [p \in P |-> <<>>]

\* one caller, every input
Init ==
    /\ \E c \in {NilClient, InjectedClient} : executors = <<NewHTTP(c)>>
    /\ InitCallers({1})

Next ==
    \E p \in DOMAIN pc :
        \/ \E r \in 1..Len(executors), url \in URLs, h \in HeaderSets :
              GetCall(p, r, url, h)
        \/ \E r \in 1..Len(executors), url \in URLs, d \in Datas, h \in HeaderSets :
              PostCall(p, r, url, d, h)
        \/ \E o \in Outcomes : DoReturn(p, o)
        \/ ReadBody(p)
        \/ Finish(p)
        \/ \E r \in 1..Len(executors), b \in Bundles : ClientCall(p, r, b)
        \/ Resume(p)

Spec == Init /\ [][Next]_vars

\* NumCallers concurrent callers of one executor, fewer inputs
InitConc ==
    /\ executors = <<NewHTTP(InjectedClient)>>
    /\ InitCallers(1..NumCallers)

NextConc ==
    \E p \in DOMAIN pc :
        \/ \E r \in 1..Len(executors), url \in ConcURLs, h \in ConcHeaderSets :
              GetCall(p, r, url, h)
        \/ \E r \in 1..Len(executors), url \in ConcURLs, d \in ConcDatas,
              h \in ConcHeaderSets :
              PostCall(p, r, url, d, h)
        \/ \E o \in ConcOutcomes : DoReturn(p, o)
        \/ ReadBody(p)
        \/ Finish(p)
        \/ Resume(p)

SpecConc == InitConc /\ [][NextConc]_vars

(***************************************************************************)
(* Properties.                                                             *)
(***************************************************************************)
IsCall(p) == call[p].op \in {"Get", "Post"}
\* p's call has returned
Returned(p) == IsCall(p) /\ pc[p] = "done"
\* p's call has returned after the dispatcher answered with a response that
\* carries a body
ReturnedResponse(p) ==
    Returned(p) /\ call[p].req # NoReq /\ wire[p].err = NoErr /\ wire[p].body.present
Count(seq, x) == Cardinality({i \in 1..Len(seq) : seq[i] = x})
\* a map value without its statusCode entry
WithoutStatusCode(val) ==
    IF val.k = "map"
    THEN GoMap([x \in (DOMAIN val.v) \ {"statusCode"} |-> val.v[x]])
    ELSE val

\* C1: when the body of the response decodes to a JSON object, Get and Post
\* return that object with statusCode set to the status code (added or
\* overwritten), every other key with its decoded value, no further key, and a
\* nil error.
C1_ObjectBodyMerged ==
    \A p \in DOMAIN pc :
        ReturnedResponse(p) =>
            LET d == Decode(wire[p].body.toks) IN
            (d.err = NoErr /\ d.val.k = "map") =>
                /\ out[p].err = NoErr
                /\ out[p].val.k = "map"
                /\ DOMAIN out[p].val.v = (DOMAIN d.val.v) \cup {"statusCode"}
                /\ out[p].val.v["statusCode"] = GoInt(wire[p].status)
                /\ \A key \in (DOMAIN d.val.v) \ {"statusCode"} :
                       out[p].val.v[key] = d.val.v[key]

\* a Get answered 404 with {"statusCode": 1, "a": null} has returned
C1_Witness ==
    \E p \in DOMAIN pc :
        /\ ReturnedResponse(p)
        /\ call[p].op = "Get"
        /\ wire[p].status = 404
        /\ Decode(wire[p].body.toks).val.k = "map"
        /\ "statusCode" \in DOMAIN Decode(wire[p].body.toks).val.v
        /\ "a" \in DOMAIN out[p].val.v
        /\ out[p].val.v["statusCode"] = GoInt(404)
        /\ out[p].val.v["a"] = GoNil

\* C2: when the body of the response is not a JSON object (array, scalar,
\* null, empty, undecodable), Get and Post return a map with exactly the keys
\* body and statusCode, statusCode the status code and body the decoded value
\* or nil when decoding failed, and a nil error.
C2_OtherBodyWrapped ==
    \A p \in DOMAIN pc :
        ReturnedResponse(p) =>
            LET d == Decode(wire[p].body.toks) IN
            (d.err # NoErr \/ d.val.k # "map") =>
                /\ out[p].err = NoErr
                /\ out[p].val.k = "map"
                /\ DOMAIN out[p].val.v = {"body", "statusCode"}
                /\ out[p].val.v["statusCode"] = GoInt(wire[p].status)
                /\ out[p].val.v["body"] = IF d.err # NoErr THEN GoNil ELSE d.val

\* a Get answered 500 with a body that is not JSON has returned {body: nil,
\* statusCode: 500}
C2_Witness ==
    \E p \in DOMAIN pc :
        /\ ReturnedResponse(p)
        /\ call[p].op = "Get"
        /\ wire[p] = Response(500, Stream(<<"<html>">>))
        /\ out[p].val = GoMap(MapSet(MapSet(EmptyMap, "body", GoNil),
                                     "statusCode", GoInt(500)))
        /\ out[p].err = NoErr

\* C3: a status code is never turned into an error: once the dispatcher has
\* answered with a response, the call gives no error, the value it returns
\* holds statusCode equal to the status code, and apart from statusCode the
\* outcome is the one any other status code with the same body gives.
C3_StatusNeverAnError ==
    \A p \in DOMAIN pc :
        (IsCall(p) /\ pc[p] \in {"done", "panicked"} /\ call[p].req # NoReq
         /\ wire[p].err = NoErr) =>
            /\ out[p].err = NoErr
            /\ pc[p] = "done" =>
                   /\ wire[p].body.present
                   /\ out[p].val.k = "map"
                   /\ "statusCode" \in DOMAIN out[p].val.v
                   /\ out[p].val.v["statusCode"] = GoInt(wire[p].status)
            /\ \A s \in StatusCodes :
                   LET e == executeRequest([wire[p] EXCEPT !.status = s]) IN
                   /\ e.panic = (pc[p] = "panicked")
                   /\ e.err = NoErr
                   /\ WithoutStatusCode(e.val) = WithoutStatusCode(out[p].val)

\* a Post answered 404 with {"error": "not found"} has returned
\* {"error": "not found", "statusCode": 404} and no error
C3_Witness ==
    \E p \in DOMAIN pc :
        /\ ReturnedResponse(p)
        /\ call[p].op = "Post"
        /\ wire[p].status = 404
        /\ out[p].err = NoErr
        /\ out[p].val = GoMap(MapSet(MapSet(EmptyMap, "error", GoString("not found")),
                                     "statusCode", GoInt(404)))

\* C4: when the dispatcher's Do fails, Get and Post return a nil value and an
\* error that wraps the dispatcher's error.
C4_DispatchErrorWrapped ==
    \A p \in DOMAIN pc :
        (Returned(p) /\ call[p].req # NoReq /\ wire[p].err # NoErr) =>
            /\ out[p].val = GoNil
            /\ out[p].err # NoErr
            /\ Head(out[p].err) = "request failed"
            /\ Tail(out[p].err) = wire[p].err

\* a Post whose Do failed with "connection refused" has returned
C4_Witness ==
    \E p \in DOMAIN pc :
        /\ Returned(p)
        /\ call[p].op = "Post"
        /\ wire[p].err = <<"connection refused">>
        /\ out[p].err = <<"request failed", "connection refused">>
        /\ out[p].val = GoNil

\* C5: a call whose data cannot be encoded (Post) or whose URL does not parse
\* returns a nil value and an error without Do being invoked, the encoding
\* error when both fail; every other call invokes Do exactly once.
C5_LocalFailuresBeforeDispatch ==
    \A p \in DOMAIN pc :
        (IsCall(p) /\ pc[p] # "idle") =>
            LET enc == call[p].op = "Post" /\ Marshal(call[p].data).err # NoErr
                bad == ParseURL(call[p].url) # NoErr
            IN IF enc \/ bad
               THEN /\ pc[p] = "done"
                    /\ out[p].val = GoNil
                    /\ out[p].err # NoErr
                    /\ Count(events[p], "Do") = 0
                    /\ Head(out[p].err) = IF enc THEN "failed to encode request data"
                                          ELSE "failed to create request"
               ELSE Count(events[p], "Do") = 1

\* a Post of NaN to "://h" has returned the encoding error
C5_Witness ==
    \E p \in DOMAIN pc :
        /\ Returned(p)
        /\ call[p].op = "Post"
        /\ call[p].data = GoNaN
        /\ call[p].url = <<":", "/", "/", "h">>
        /\ Head(out[p].err) = "failed to encode request data"
        /\ events[p] = <<>>

\* the step is a Client call by p
ClientStep(p) ==
    /\ call'[p].op = "Client"
    /\ <<call'[p], pc'[p], out'[p]>> # <<call[p], pc[p], out[p]>>

\* C6: Client with an empty bundle returns the executor it was called on and a
\* nil error, and changes neither the executors nor any other caller's call.
C6_EmptyBundleIdentity ==
    [][\A p \in DOMAIN pc :
          (ClientStep(p) /\ call'[p].bundle = <<>>) =>
              /\ out'[p].ret = call'[p].recv
              /\ out'[p].err = NoErr
              /\ executors' = executors
              /\ \A q \in (DOMAIN pc) \ {p} :
                     <<pc'[q], call'[q], resp'[q], bodyVal'[q], out'[q], events'[q]>>
                         = <<pc[q], call[q], resp[q], bodyVal[q], out[q], events[q]>>]_vars

\* Client("") on a derived executor has returned that executor
C6_Witness ==
    \E p \in DOMAIN pc :
        /\ pc[p] = "done"
        /\ call[p].op = "Client"
        /\ call[p].bundle = <<>>
        /\ call[p].recv = 2
        /\ out[p].ret = 2
        /\ out[p].err = NoErr

\* C7: Client with a non-empty bundle never returns the receiver and leaves
\* every existing executor as it was: with no certificate in the bundle it
\* returns no executor and an error, otherwise a new executor whose dispatcher
\* is none of the existing executors' dispatchers.
C7_DerivedClientIsNew ==
    [][\A p \in DOMAIN pc :
          (ClientStep(p) /\ call'[p].bundle # <<>>) =>
              LET r == call'[p].recv
                  ret == out'[p].ret
              IN /\ ret # r
                 /\ Len(executors') >= Len(executors)
                 /\ \A e \in 1..Len(executors) : executors'[e] = executors[e]
                 /\ IF AppendCertsFromPEM(call'[p].bundle, 1, {}) = {}
                    THEN /\ ret = 0
                         /\ out'[p].err # NoErr
                         /\ executors' = executors
                    ELSE /\ out'[p].err = NoErr
                         /\ ret = Len(executors) + 1
                         /\ Len(executors') = ret
                         /\ \A e \in 1..Len(executors) :
                                executors'[ret].client # executors[e].client]_vars

\* Client with the bundle KEY, text, CERT-B has returned a second executor that
\* trusts CERT-B
C7_Witness ==
    \E p \in DOMAIN pc :
        /\ pc[p] = "done"
        /\ call[p].op = "Client"
        /\ call[p].bundle = <<"KEY", "text", "CERT-B">>
        /\ call[p].recv = 1
        /\ out[p].ret = 2
        /\ Len(executors) = 2
        /\ executors[2].client.rootCAs = {"CERT-B"}
        /\ executors[1].client.kind # "http.Client"

\* what call c gives when nothing else runs and the dispatcher answers r
CallAlone(c, r) ==
    LET g == IF c.op = "Get" THEN Get(c.url, c.headers)
             ELSE Post(c.url, c.data, c.headers)
    IN IF g.dispatch THEN executeRequest(r) ELSE Return(GoNil, g.err, <<>>)

C8_Independent ==
    /\ \A p \in DOMAIN pc :
           (IsCall(p) /\ pc[p] \in {"done", "panicked"}) =>
               LET a == CallAlone(call[p], wire[p]) IN
               /\ a.panic = (pc[p] = "panicked")
               /\ out[p].val = a.val
               /\ out[p].err = a.err
    /\ \A p, q \in DOMAIN pc :
           (/\ Returned(p) /\ Returned(q)
            /\ [call[p] EXCEPT !.disp = NilClient] = [call[q] EXCEPT !.disp = NilClient]
            /\ wire[p] = wire[q]) => out[p] = out[q]

\* a step of a Get or Post call leaves the executors as they are
C8_Frame ==
    (\E p \in DOMAIN pc : IsCall(p)' /\ <<call'[p], pc'[p], out'[p]>> # <<call[p], pc[p], out[p]>>)
        => executors' = executors

\* C8: calls on one executor are independent: under every interleaving a call
\* returns what it returns when run alone with the same answer from the
\* dispatcher, two calls with the same inputs and the same answer return the
\* same, and no step of a call writes an executor.
C8_CallsIndependent == [][C8_Frame]_vars /\ []C8_Independent

\* two calls on the same executor, answered differently: one has returned its
\* own answer normalised while the other holds its response
C8_Witness ==
    \E p, q \in DOMAIN pc :
        /\ p # q
        /\ ReturnedResponse(p)
        /\ pc[q] = "gotResp"
        /\ call[p].recv = call[q].recv
        /\ wire[p] # wire[q]
        /\ wire[q].err = NoErr
        /\ out[p].val.v["statusCode"] = GoInt(wire[p].status)

\* C9: the body of a response is closed exactly once, after it has been read
\* and by the time the call has returned, whether it decodes to an object, to
\* something else or not at all; when Do fails, or is not reached, nothing is
\* closed; until the body has been read nothing is closed, and once it has
\* been read it is open until the call returns.
C9_BodyClosedOnce ==
    \A p \in DOMAIN pc :
        IsCall(p) =>
            /\ ReturnedResponse(p) => events[p] = <<"Do", "Read", "Close">>
            /\ (Returned(p) /\ (call[p].req = NoReq \/ wire[p].err # NoErr)) =>
                   Count(events[p], "Close") = 0
            /\ pc[p] \in {"inDo", "gotResp"} => events[p] = <<"Do">>
            /\ pc[p] = "decoded" => events[p] = <<"Do", "Read">>

\* a Get answered with a truncated object has returned with the body closed
C9_Witness ==
    \E p \in DOMAIN pc :
        /\ ReturnedResponse(p)
        /\ wire[p].body.toks = <<"{", "\"a\"", ":">>
        /\ out[p].val.v["body"] = GoNil
        /\ events[p] = <<"Do", "Read", "Close">>

\* C10: every call that has ended has returned, and returned exactly one of a
\* value and an error, whatever the dispatcher answered (an error, or any
\* status code with any body, present or absent).
C10_AlwaysReturnsOne ==
    \A p \in DOMAIN pc :
        (IsCall(p) /\ pc[p] \in {"done", "panicked"}) =>
            /\ pc[p] = "done"
            /\ (out[p].val # GoNil) # (out[p].err # NoErr)

====
